---- MODULE Spec2Model ----
(***************************************************************************)
(* Checkpointed, parallel, retrying ingestion pipeline                     *)
(* (src/ingestion/pipeline.py, IngestionPipeline) together with the parts  *)
(* of the store client (src/ingestion/spanner_client.py) that decide what  *)
(* a batch call returns or raises.                                         *)
(*                                                                         *)
(* One behaviour is a sequence of runs of the pipeline process over the    *)
(* same dataset and configuration.  The checkpoint file and the store      *)
(* survive from one run to the next; everything else is process memory.    *)
(***************************************************************************)
EXTENDS Integers, Sequences, FiniteSets, TLC

\* ---------------------------------------------------------------- bounds
NumEntityBatches == 3   \* batches yielded by load_entities for the dataset
NumRelBatches == 1      \* batches yielded by load_relationships
EntityBatchLen == 2     \* records in one entity batch
RelBatchLen == 2        \* records in one relationship batch
MaxRetry == 2           \* retry_attempts ranges over 0..MaxRetry
MaxWorkers == 2         \* parallel_workers ranges over 1..MaxWorkers
MaxRuns == 2            \* runs of the process in one behaviour
MaxFaults == 2          \* failed connects, failed writes and failed file operations in one behaviour
NumFiles == 3           \* file names in the list of load_entities / load_relationships
MaxFileLen == 3         \* records in one data file
MaxBatchSize == 2       \* batch_size ranges over 1..MaxBatchSize
MaxEnumerations == 2    \* enumerations of the data loader that are compared
NumAssets == 2          \* asset ids that occur in a node batch
MaxApplications == 2    \* applications of one node batch to the Assets table
MaxPipelines == 2       \* pipeline objects constructed in one working directory
MaxAttempts == 3        \* retry_attempts ranges over 1..MaxAttempts where the backoff is followed

VARIABLES
    retry_attempts,     \* self.retry_attempts
    parallel_workers,   \* self.parallel_workers
    enable_checkpoints, \* self.enable_checkpoints
    disk,               \* the checkpoint file self.checkpoint_file
    store,              \* batches whose rows the store holds, per table
    pc,                 \* position of the main thread in run_ingestion
    checkpoint_data,    \* the dict returned by _load_checkpoint, shared by the workers
    task,               \* the futures of the two pools, one per batch
    results,            \* finished futures not yet consumed by as_completed
    metrics,            \* self.metrics
    run,                \* number of runs started so far
    loaded,             \* the checkpoint as loaded at the start of this run
    hist,               \* what this run has done so far (history)
    faults,             \* failures the environment has produced so far
    prev,               \* how the previous run ended (history)
    data_loader,        \* self.data_loader: the data files and the generator of load_*
    database,           \* self.database of a client: the rows of the Assets table
    pipelines,          \* the pipeline objects constructed in one working directory
    files,              \* the checkpoint files of that directory, by name
    GlobalRegistry      \* the template registry and the last subgraph it validated

pipeline_vars == <<retry_attempts, parallel_workers, enable_checkpoints, disk, store, pc,
                   checkpoint_data, task, results, metrics, run, loaded, hist, faults, prev>>

\* What a step of run_ingestion leaves alone: the data files, the rows of
\* the Assets table (the pipeline steps take the table by batch, as store),
\* the pipelines of other configurations with their files, and the template
\* registry.
apart == <<data_loader, database, pipelines, files, GlobalRegistry>>

vars == <<pipeline_vars, apart>>

config == <<retry_attempts, parallel_workers, enable_checkpoints>>

\* ------------------------------------------------------------- data model
Kinds == {"entity", "relationship"}

BatchIds(k) == IF k = "entity" THEN 0 .. (NumEntityBatches - 1)
                               ELSE 0 .. (NumRelBatches - 1)

BatchLen(k) == IF k = "entity" THEN EntityBatchLen ELSE RelBatchLen

\* The dict _load_checkpoint returns when there is nothing to resume from.
\* A timestamp is "None" or "time"; a key the dict does not hold has the value
\* "absent".
FreshCheckpoint ==
    [completed_entity_batches |-> {},
     completed_relationship_batches |-> {},
     phase |-> "entities",
     timestamp |-> "None"]

\* The checkpoint file: absent, unreadable (not JSON, or JSON that is not an
\* object, so that json.load or data.get raises), or holding a JSON object.
NoFile == [file |-> "absent", data |-> FreshCheckpoint]

CorruptFile == [file |-> "corrupt", data |-> FreshCheckpoint]

SavedFile(d) == [file |-> "saved", data |-> d]

\* A JSON object without the key 'phase', and one without the key 'timestamp'.
NoPhaseFile == SavedFile([FreshCheckpoint EXCEPT !.phase = "absent", !.timestamp = "time"])

NoTimestampFile == SavedFile([FreshCheckpoint EXCEPT !.timestamp = "absent"])

\* The file an earlier run left when it was killed after entity batch 0 was
\* written and saved, and the store as that run left it.
StaleFile == SavedFile([FreshCheckpoint EXCEPT !.completed_entity_batches = {0},
                                               !.timestamp = "time"])

StaleStore == [k \in Kinds |-> IF k = "entity" THEN {0} ELSE {}]

EmptyStore == [k \in Kinds |-> {}]

\* What the first run of a behaviour may find: the checkpoint file and the store.
InitialStates ==
    {<<NoFile, EmptyStore>>, <<CorruptFile, EmptyStore>>, <<NoPhaseFile, EmptyStore>>,
     <<NoTimestampFile, EmptyStore>>, <<StaleFile, StaleStore>>}

Completed(cp, k) == IF k = "entity" THEN cp.completed_entity_batches
                                    ELSE cp.completed_relationship_batches

AddCompleted(cp, k, i) ==
    IF k = "entity"
    THEN [cp EXCEPT !.completed_entity_batches = @ \cup {i}]
    ELSE [cp EXCEPT !.completed_relationship_batches = @ \cup {i}]

\* self.metrics as built by __init__ (the wall-clock fields are left out).
ZeroMetrics ==
    [entities_loaded |-> 0, entities_updated |-> 0, relationships_loaded |-> 0,
     entity_batches_processed |-> 0, relationship_batches_processed |-> 0,
     entity_batches_failed |-> 0, relationship_batches_failed |-> 0,
     entity_batches_skipped |-> 0, relationship_batches_skipped |-> 0,
     total_retries |-> 0, errors |-> 0, warnings |-> 0]

\* A future of a pool: not submitted yet.
IdleTask == [st |-> "idle", attempt |-> 0, calls |-> 0, raised |-> 0, incs |-> 0,
             connected |-> FALSE, wait_time |-> 0, tmp |-> 0,
             snap |-> FreshCheckpoint, result |-> "none", errors |-> 0,
             inserted |-> 0, updated |-> 0]

NoTasks == [k \in Kinds |-> [i \in BatchIds(k) |-> IdleTask]]

\* History of the current run: the batches a store call was made for, the
\* batches written to the store, the batches that failed, the kinds enumerated
\* from the data loader, whether the checkpoint file was removed, whether a
\* save or the removal failed, whether the run resumed from a saved file,
\* whether a DDL statement of create_schema failed, whether validation or the
\* main connection failed, whether reading a key of
\* the loaded checkpoint raised, the number of failed attempts that were
\* retried, and the store and the file as they were when the run started.
ZeroHist == [called |-> {}, written |-> {}, failed |-> {}, enumerated |-> {}, retried |-> 0,
             cleared |-> FALSE, save_failed |-> FALSE, clear_failed |-> FALSE,
             resumed |-> FALSE, schema_failed |-> FALSE, key_error |-> FALSE,
             startup_failed |-> FALSE,
             store0 |-> [k \in Kinds |-> {}], disk0 |-> NoFile]

\* History of the previous run: how it ended, the batches that failed in it,
\* the batches it wrote to the store, and whether a checkpoint file operation
\* failed in it.
NoPrev == [ended |-> "none", failed |-> {}, applied |-> {}, io_failed |-> FALSE]

\* self.upsert_mode; the default of __init__ and of --mode.
upsert_mode == "smart"

RECURSIVE Pow2(_)
Pow2(n) == IF n = 0 THEN 1 ELSE 2 * Pow2(n - 1)

\* Mutant of LoadCheckpoint: the file is read although checkpoints are disabled.
LoadCheckpoint_IgnoresFlag ==
    IF disk.file = "saved" THEN disk.data ELSE FreshCheckpoint

\* Mutant of LoadCheckpoint: the file is never read.
LoadCheckpoint_AlwaysFresh == FreshCheckpoint

\* _load_checkpoint
LoadCheckpoint ==
    IF ~enable_checkpoints \/ disk.file = "absent"
    THEN FreshCheckpoint
    ELSE IF disk.file = "saved" THEN disk.data
         ELSE FreshCheckpoint

\* No process has been started.
NotStarted ==
    /\ pc = "idle"
    /\ checkpoint_data = FreshCheckpoint
    /\ task = NoTasks
    /\ results = <<>>
    /\ metrics = ZeroMetrics
    /\ run = 0
    /\ loaded = FreshCheckpoint
    /\ hist = ZeroHist
    /\ faults = 0
    /\ prev = NoPrev

\* The data loader before any enumeration.  The pipeline steps take the
\* batches it yields as BatchIds; the loader steps below read the files.
NoData ==
    [kind |-> "entity", files |-> [f \in 1 .. NumFiles |-> [exists |-> FALSE, records |-> <<>>]],
     batch_size |-> 1, file |-> 1, pos |-> 0, batch |-> <<>>, yielded |-> <<>>,
     enumerations |-> <<>>]

\* An Assets table without rows, and no batch applied to it.
AssetIds == 1 .. NumAssets

NoRow == [exists |-> FALSE, entity_data |-> "", created_at |-> 0, updated_at |-> 0]

NoRows ==
    [Assets |-> [id \in AssetIds |-> NoRow], commit_timestamp |-> 0,
     batch |-> <<>>, applications |-> <<>>]

\* class EntityKind and class RelationshipKind of src/model/template/template.py.
EntityKind == {"EK_UNKNOWN", "EK_CUSTOMER", "EK_PRODUCT", "EK_DATACENTER", "EK_UTILITY",
               "EK_UPS", "EK_PDU", "EK_CAGE", "EK_CABINET"}

RelationshipKind == {"RK_UNKNOWN", "RK_OWNS", "RK_OWNED_BY", "RK_FULFILLS", "RK_FULFILLED_BY",
                     "RK_CONTAINS", "RK_CONTAINED_BY", "RK_FEEDS_POWER_TO", "RK_POWERED_BY"}

\* What get_template returns for a kind without a registered template.
None == [entity_kind |-> "None", allowed_parents |-> {}, allowed_parent_relationships |-> {},
         allowed_children |-> {}, allowed_child_relationships |-> {}]

\* TemplateRegistry(): no template registered, no registration function of
\* register_all_templates called, validate_subgraph not called.
TemplateRegistry ==
    [templates |-> [kind \in EntityKind |-> None], registered |-> 0,
     entities |-> <<>>, relationships |-> <<>>, raised |-> "not_called"]

Init ==
    /\ retry_attempts \in 0 .. MaxRetry
    /\ parallel_workers \in 1 .. MaxWorkers
    /\ enable_checkpoints \in BOOLEAN
    /\ \E found \in InitialStates : disk = found[1] /\ store = found[2]
    /\ NotStarted
    /\ data_loader = NoData
    /\ database = NoRows
    /\ pipelines = <<>>
    /\ files = {}
    /\ GlobalRegistry = TemplateRegistry

\* --------------------------------------------------------- history helpers
\* The environment produces a failure only while fewer than MaxFaults have
\* happened.
Fault(failure) ==
    IF failure THEN faults < MaxFaults /\ faults' = faults + 1
               ELSE faults' = faults

EndOfRun(how) ==
    [ended |-> how,
     failed |-> IF how = "done" THEN hist.failed ELSE {},
     applied |-> IF how = "done" THEN hist.written ELSE {},
     io_failed |-> IF how = "done" THEN hist.save_failed \/ hist.clear_failed ELSE FALSE]

\* ------------------------------------------------------------ main thread
\* A process is started: __init__, then run_ingestion up to the load of the
\* checkpoint.
\* checkpoint_data['timestamp'] of the resume banner raises KeyError.
BannerRaises(cp) == cp.timestamp = "absent"

\* checkpoint_data['phase'] raises KeyError.
PhaseTestRaises(cp) == cp.phase = "absent"

StartRun ==
    /\ pc \in {"idle", "done", "aborted", "crashed"}
    /\ run < MaxRuns
    /\ ~BannerRaises(LoadCheckpoint)
    /\ run' = run + 1
    /\ metrics' = ZeroMetrics
    /\ checkpoint_data' = LoadCheckpoint
    /\ loaded' = LoadCheckpoint
    /\ task' = NoTasks
    /\ results' = <<>>
    /\ hist' = [ZeroHist EXCEPT !.store0 = store, !.disk0 = disk,
                                !.resumed = (enable_checkpoints /\ disk.file = "saved")]
    /\ prev' = IF pc \in {"done", "aborted"} THEN EndOfRun(pc) ELSE prev
    /\ pc' = "startup"
    /\ UNCHANGED <<apart, config, disk, store, faults>>

\* A process is started and the resume banner raises: the exception leaves
\* run_ingestion before its try block, and main returns 1.
StartRunRaises ==
    /\ pc \in {"idle", "done", "aborted", "crashed"}
    /\ run < MaxRuns
    /\ BannerRaises(LoadCheckpoint)
    /\ run' = run + 1
    /\ metrics' = ZeroMetrics
    /\ checkpoint_data' = LoadCheckpoint
    /\ loaded' = LoadCheckpoint
    /\ task' = NoTasks
    /\ results' = <<>>
    /\ hist' = [ZeroHist EXCEPT !.store0 = store, !.disk0 = disk, !.key_error = TRUE,
                                !.resumed = (enable_checkpoints /\ disk.file = "saved")]
    /\ prev' = IF pc \in {"done", "aborted"} THEN EndOfRun(pc) ELSE prev
    /\ pc' = "aborted"
    /\ UNCHANGED <<apart, config, disk, store, faults>>

\* Steps 1 to 4 of run_ingestion: validate_data_format, the main connection,
\* create_schema, get_data_stats.  None of them touches the tables or the
\* checkpoint.  create_schema catches a failing DDL statement and returns
\* False; run_ingestion does not look at what it returns.
StartupOk ==
    /\ pc = "startup"
    /\ \E schema_created \in BOOLEAN :
          /\ Fault(~schema_created)
          /\ hist' = [hist EXCEPT !.schema_failed = ~schema_created]
    /\ pc' = "phase1"
    /\ UNCHANGED <<apart, config, disk, store, checkpoint_data, task, results, metrics,
                   run, loaded, prev>>

\* Validation fails, or the main connection is down and create_schema raises:
\* the except clause counts one error and re-raises.
StartupFails ==
    /\ pc = "startup"
    /\ Fault(TRUE)
    /\ metrics' = [metrics EXCEPT !.errors = @ + 1]
    /\ hist' = [hist EXCEPT !.startup_failed = TRUE]
    /\ pc' = "aborted"
    /\ UNCHANGED <<apart, config, disk, store, checkpoint_data, task, results,
                   run, loaded, prev>>

PoolPc(k) == IF k = "entity" THEN "entities_pool" ELSE "relationships_pool"

\* Mutant of RunsEntityPhase: phase 1 runs unless the checkpoint is complete.
RunsEntityPhase_UnlessComplete(cp) == cp.phase # "complete"

\* if checkpoint_data['phase'] == 'entities'
RunsEntityPhase(cp) == cp.phase = "entities"

\* if checkpoint_data['phase'] == 'relationships'
RunsRelationshipPhase(cp) == cp.phase = "relationships"

\* Mutant of ShouldClear: the test names the wrong phase.
ShouldClear_WrongPhase(cp) == cp.phase = "relationships"

\* if checkpoint_data['phase'] == 'complete'
ShouldClear(cp) == cp.phase = "complete"

\* executor.submit for every enumerated batch of the phase.
SubmitAll(k) == [task EXCEPT ![k] = [i \in BatchIds(k) |-> [IdleTask EXCEPT !.st = "queued"]]]

\* Phase 1 is entered: the batches are enumerated and submitted to the pool.
SubmitEntities ==
    /\ pc = "phase1"
    /\ RunsEntityPhase(checkpoint_data)
    /\ task' = SubmitAll("entity")
    /\ hist' = [hist EXCEPT !.enumerated = @ \cup {"entity"}]
    /\ pc' = PoolPc("entity")
    /\ UNCHANGED <<apart, config, disk, store, checkpoint_data, results, metrics,
                   run, loaded, prev, faults>>

\* The test of phase 1 raises; the except clause counts one error and re-raises.
PhaseRaises ==
    /\ pc = "phase1"
    /\ PhaseTestRaises(checkpoint_data)
    /\ metrics' = [metrics EXCEPT !.errors = @ + 1]
    /\ hist' = [hist EXCEPT !.key_error = TRUE]
    /\ pc' = "aborted"
    /\ UNCHANGED <<apart, config, disk, store, checkpoint_data, task, results,
                   run, loaded, prev, faults>>

\* Phase 1 is skipped.
SkipEntities ==
    /\ pc = "phase1"
    /\ ~PhaseTestRaises(checkpoint_data)
    /\ ~RunsEntityPhase(checkpoint_data)
    /\ pc' = "phase2"
    /\ UNCHANGED <<apart, config, disk, store, checkpoint_data, task, results, metrics,
                   run, loaded, hist, prev, faults>>

SubmitRelationships ==
    /\ pc = "phase2"
    /\ RunsRelationshipPhase(checkpoint_data)
    /\ task' = SubmitAll("relationship")
    /\ hist' = [hist EXCEPT !.enumerated = @ \cup {"relationship"}]
    /\ pc' = PoolPc("relationship")
    /\ UNCHANGED <<apart, config, disk, store, checkpoint_data, results, metrics,
                   run, loaded, prev, faults>>

SkipRelationships ==
    /\ pc = "phase2"
    /\ ~RunsRelationshipPhase(checkpoint_data)
    /\ pc' = "verify"
    /\ UNCHANGED <<apart, config, disk, store, checkpoint_data, task, results, metrics,
                   run, loaded, hist, prev, faults>>

\* ------------------------------------------------------- checkpoint file
\* What the with open(..., 'w') / json.dump of _save_checkpoint leaves on disk:
\* the snapshot; the old file when open raises; a truncated file when the
\* write breaks off.
SaveOutcomes == {"written", "open_failed", "write_failed"}

FileAfterSave(old, snap, outcome) ==
    IF outcome = "written" THEN SavedFile([snap EXCEPT !.timestamp = "time"])
    ELSE IF outcome = "open_failed" THEN old
    ELSE CorruptFile

\* _clear_checkpoint: os.remove when the file exists; an error is only printed.
ClearOutcomes == {"removed", "remove_failed"}

\* Mutant of IOErrorCaught: an error of the file operation leaves the method.
IOErrorCaught_Propagates(outcome) == outcome \in {"written", "removed"}

\* except Exception as e: print(...) in _save_checkpoint and _clear_checkpoint:
\* whatever the file operation did, the method returns normally.
IOErrorCaught(outcome) == outcome \in SaveOutcomes \cup ClearOutcomes

FileAfterClear(old, outcome) == IF outcome = "removed" THEN NoFile ELSE old

\* ---------------------------------------------------------------- workers
Active == {"try", "save", "write", "sleep", "inc"}

\* Batches a pool thread is working on.
Running(k) == {i \in BatchIds(k) : task[k][i].st \in Active}

\* The pool's work queue is first in, first out: the next batch a free thread
\* takes is the earliest one still queued.
NextQueued(k, i) ==
    /\ task[k][i].st = "queued"
    /\ \A j \in BatchIds(k) : j < i => task[k][j].st # "queued"

\* Mutant of WorkerFree: the pool starts a thread for every submitted batch.
WorkerFree_Unbounded(k) == k \in Kinds

\* ThreadPoolExecutor(max_workers=self.parallel_workers): a queued batch is
\* taken only while fewer than parallel_workers threads are busy.
WorkerFree(k) == Cardinality(Running(k)) < parallel_workers

\* Mutant of ShouldSkip: the checkpoint test is missing.
ShouldSkip_Never(cp, k, i) == FALSE

\* if batch_num in checkpoint_data['completed_..._batches']
ShouldSkip(cp, k, i) == i \in Completed(cp, k)

\* Mutant of RetriesRemain: off by one, the last attempt is retried too.
RetriesRemain_OffByOne(attempt) == attempt < retry_attempts

\* if attempt < self.retry_attempts - 1
RetriesRemain(attempt) == attempt < retry_attempts - 1

\* Mutant of NoAttempts: the body of the retry loop runs at least once.
NoAttempts_AtLeastOne(limit) == limit < 0

\* for attempt in range(self.retry_attempts): range is empty for a limit of 0
\* or less, and the return after the loop is reached at once.
NoAttempts(limit) == limit <= 0

\* Mutant of WaitTime: every backoff sleep has the same length.
WaitTime_Constant(attempt) == 1

\* wait_time = (2 ** attempt)
WaitTime(attempt) == Pow2(attempt)

\* if not self.connected: raise Exception("Not connected to Spanner Graph").
\* Everything else in the batch methods runs inside their own try/except.
BatchCallRaises(connected) == ~connected

\* What a batch method returns: the counts of a committed write, or zero rows
\* and errors = len(batch) when the write raised inside the method.
BatchCallResult(k, i, committed) ==
    IF ~committed
    THEN [inserted |-> 0, updated |-> 0, errors |-> BatchLen(k)]
    ELSE IF k = "entity" /\ upsert_mode = "smart" /\ i \in store[k]
         THEN [inserted |-> 0, updated |-> BatchLen(k), errors |-> 0]
         ELSE [inserted |-> BatchLen(k), updated |-> 0, errors |-> 0]

\* Mutant of disconnect: the client stays connected.
disconnect_Skipped(connected) == connected

\* SpannerGraphClient.disconnect, called by the finally clause of an attempt:
\* self.connected after the call.
disconnect(connected) == IF connected THEN FALSE ELSE connected

\* The worker returns: the finally clause disconnects the client, the future
\* is done and as_completed will yield it.
Resolve(t, r, res) ==
    [t EXCEPT !.st = "done", !.result = r, !.connected = disconnect(@),
              !.errors = res.errors, !.inserted = res.inserted,
              !.updated = res.updated]

SkippedResult == [inserted |-> 0, updated |-> 0, errors |-> 0]

FailedResult(k) == [inserted |-> 0, updated |-> 0, errors |-> BatchLen(k)]

\* A pool thread takes the batch: the checkpoint test, then the first pass of
\* for attempt in range(self.retry_attempts).
StartBatch(k, i) ==
    /\ pc = PoolPc(k)
    /\ NextQueued(k, i)
    /\ WorkerFree(k)
    /\ IF ShouldSkip(checkpoint_data, k, i)
       THEN /\ task' = [task EXCEPT ![k][i] = Resolve(@, "skipped", SkippedResult)]
            /\ results' = Append(results, <<k, i>>)
       ELSE IF NoAttempts(retry_attempts)
            THEN /\ task' = [task EXCEPT ![k][i] = Resolve(@, "failed", FailedResult(k))]
                 /\ results' = Append(results, <<k, i>>)
            ELSE /\ task' = [task EXCEPT ![k][i].st = "try"]
                 /\ results' = results
    /\ hist' = IF task'[k][i].result = "failed"
               THEN [hist EXCEPT !.failed = @ \cup {<<k, i>>}]
               ELSE hist
    /\ UNCHANGED <<apart, config, disk, store, pc, checkpoint_data, metrics, run,
                   loaded, prev, faults>>

\* One attempt: a new client, connect(), the batch call.  A call that returns
\* marks the batch completed; a call that raises goes to the except clause.
Attempt(k, i) ==
    /\ pc = PoolPc(k)
    /\ task[k][i].st = "try"
    /\ \E connected \in BOOLEAN, committed \in BOOLEAN :
        /\ connected \/ ~committed
        /\ Fault(~committed)
        /\ IF BatchCallRaises(connected)
           THEN /\ IF RetriesRemain(task[k][i].attempt)
                   THEN /\ task' = [task EXCEPT ![k][i] =
                                      [@ EXCEPT !.st = "sleep", !.calls = @ + 1,
                                                !.raised = @ + 1,
                                                !.wait_time = WaitTime(task[k][i].attempt)]]
                        /\ results' = results
                        /\ hist' = [hist EXCEPT !.called = @ \cup {<<k, i>>}]
                   ELSE /\ task' = [task EXCEPT ![k][i] =
                                      Resolve([@ EXCEPT !.calls = @ + 1, !.raised = @ + 1],
                                              "failed", FailedResult(k))]
                        /\ results' = Append(results, <<k, i>>)
                        /\ hist' = [hist EXCEPT !.called = @ \cup {<<k, i>>},
                                                !.failed = @ \cup {<<k, i>>}]
                /\ UNCHANGED <<store, checkpoint_data>>
           ELSE /\ LET res == BatchCallResult(k, i, committed) IN
                   task' = [task EXCEPT ![k][i] =
                              [@ EXCEPT !.st = "save", !.calls = @ + 1,
                                        !.connected = TRUE, !.errors = res.errors,
                                        !.inserted = res.inserted,
                                        !.updated = res.updated]]
                /\ store' = IF committed THEN [store EXCEPT ![k] = @ \cup {i}] ELSE store
                /\ hist' = [hist EXCEPT
                              !.called = @ \cup {<<k, i>>},
                              !.written = IF committed THEN @ \cup {<<k, i>>} ELSE @]
                /\ checkpoint_data' = AddCompleted(checkpoint_data, k, i)
                /\ results' = results
    /\ UNCHANGED <<apart, config, disk, pc, metrics, run, loaded, prev>>

AppliedResult(t) == [inserted |-> t.inserted, updated |-> t.updated, errors |-> t.errors]

\* _save_checkpoint, first half: the copy of the dict and of its two sets.
\* With checkpoints disabled it returns at once and the worker returns its result.
SaveSnapshot(k, i) ==
    /\ pc = PoolPc(k)
    /\ task[k][i].st = "save"
    /\ IF enable_checkpoints
       THEN /\ task' = [task EXCEPT ![k][i] =
                          [@ EXCEPT !.st = "write", !.snap = checkpoint_data]]
            /\ results' = results
       ELSE /\ task' = [task EXCEPT ![k][i] = Resolve(@, "applied", AppliedResult(@))]
            /\ results' = Append(results, <<k, i>>)
    /\ UNCHANGED <<apart, config, disk, store, pc, checkpoint_data, metrics, run,
                   loaded, hist, prev, faults>>

\* _save_checkpoint, second half: the file is overwritten with the copy; then
\* the worker disconnects its client and returns the result.
SaveWrite(k, i) ==
    /\ pc = PoolPc(k)
    /\ task[k][i].st = "write"
    /\ \E outcome \in SaveOutcomes :
        /\ Fault(outcome # "written")
        /\ disk' = FileAfterSave(disk, task[k][i].snap, outcome)
        /\ IF IOErrorCaught(outcome)
           THEN /\ task' = [task EXCEPT ![k][i] =
                             Resolve([@ EXCEPT !.snap = FreshCheckpoint],
                                     "applied", AppliedResult(@))]
                /\ results' = Append(results, <<k, i>>)
                /\ hist' = [hist EXCEPT !.save_failed = @ \/ outcome # "written"]
           ELSE \* the error reaches the except clause of the attempt
                /\ task' = [task EXCEPT ![k][i] =
                             Resolve([@ EXCEPT !.snap = FreshCheckpoint],
                                     "failed", FailedResult(k))]
                /\ results' = Append(results, <<k, i>>)
                /\ hist' = [hist EXCEPT !.save_failed = TRUE,
                                        !.failed = @ \cup {<<k, i>>}]
    /\ UNCHANGED <<apart, config, store, pc, checkpoint_data, metrics, run, loaded, prev>>

\* The backoff sleep ends; self.metrics['total_retries'] += 1 reads the counter.
Wake(k, i) ==
    /\ pc = PoolPc(k)
    /\ task[k][i].st = "sleep"
    /\ task' = [task EXCEPT ![k][i] = [@ EXCEPT !.st = "inc", !.tmp = metrics.total_retries]]
    /\ UNCHANGED <<apart, config, disk, store, pc, checkpoint_data, results, metrics,
                   run, loaded, hist, prev, faults>>

\* ... and writes it back; the finally clause runs and the loop takes the next
\* attempt, if range(self.retry_attempts) has one.
CountRetry(k, i) ==
    /\ pc = PoolPc(k)
    /\ task[k][i].st = "inc"
    /\ metrics' = [metrics EXCEPT !.total_retries = task[k][i].tmp + 1]
    /\ LET t == [task[k][i] EXCEPT !.tmp = 0, !.incs = @ + 1, !.attempt = @ + 1,
                                   !.connected = disconnect(@)] IN
       IF t.attempt < retry_attempts
       THEN /\ task' = [task EXCEPT ![k][i] = [t EXCEPT !.st = "try"]]
            /\ results' = results
            /\ hist' = [hist EXCEPT !.retried = @ + 1]
       ELSE \* range(self.retry_attempts) is exhausted: the return after the loop
            /\ task' = [task EXCEPT ![k][i] = Resolve(t, "failed", FailedResult(k))]
            /\ results' = Append(results, <<k, i>>)
            /\ hist' = [hist EXCEPT !.retried = @ + 1, !.failed = @ \cup {<<k, i>>}]
    /\ UNCHANGED <<apart, config, disk, store, pc, checkpoint_data, run, loaded, prev, faults>>

\* ------------------------------------------------- main thread, continued
\* Mutant of CountResult: a failed result leaves the loop body early and is
\* not counted as processed.
CountResult_FailedNotProcessed(m, k, t) ==
    IF k = "entity"
    THEN [m EXCEPT
            !.entity_batches_skipped = IF t.result = "skipped" THEN @ + 1 ELSE @,
            !.entity_batches_failed = IF t.result = "failed" THEN @ + 1 ELSE @,
            !.entities_loaded = IF t.result = "applied" THEN @ + t.inserted ELSE @,
            !.entities_updated = IF t.result = "applied" THEN @ + t.updated ELSE @,
            !.entity_batches_processed = IF t.result = "failed" THEN @ ELSE @ + 1,
            !.errors = @ + t.errors]
    ELSE [m EXCEPT
            !.relationship_batches_skipped = IF t.result = "skipped" THEN @ + 1 ELSE @,
            !.relationship_batches_failed = IF t.result = "failed" THEN @ + 1 ELSE @,
            !.relationships_loaded = IF t.result = "applied" THEN @ + t.inserted ELSE @,
            !.relationship_batches_processed = IF t.result = "failed" THEN @ ELSE @ + 1,
            !.errors = @ + t.errors]

\* The body of for future in as_completed(...): the counters of one result.
CountResult(m, k, t) ==
    IF k = "entity"
    THEN [m EXCEPT
            !.entity_batches_skipped = IF t.result = "skipped" THEN @ + 1 ELSE @,
            !.entity_batches_failed = IF t.result = "failed" THEN @ + 1 ELSE @,
            !.entities_loaded = IF t.result = "applied" THEN @ + t.inserted ELSE @,
            !.entities_updated = IF t.result = "applied" THEN @ + t.updated ELSE @,
            !.entity_batches_processed = @ + 1,
            !.errors = @ + t.errors]
    ELSE [m EXCEPT
            !.relationship_batches_skipped = IF t.result = "skipped" THEN @ + 1 ELSE @,
            !.relationship_batches_failed = IF t.result = "failed" THEN @ + 1 ELSE @,
            !.relationships_loaded = IF t.result = "applied" THEN @ + t.inserted ELSE @,
            !.relationship_batches_processed = @ + 1,
            !.errors = @ + t.errors]

\* A future whose result the loop has consumed: nothing reads it again.
Consumed(t) == [IdleTask EXCEPT !.st = "done", !.result = t.result,
                                !.connected = t.connected]

Collect ==
    /\ pc \in {PoolPc("entity"), PoolPc("relationship")}
    /\ results # <<>>
    /\ LET k == Head(results)[1]
           i == Head(results)[2]
       IN /\ metrics' = CountResult(metrics, k, task[k][i])
          /\ task' = [task EXCEPT ![k][i] = Consumed(@)]
    /\ results' = Tail(results)
    /\ UNCHANGED <<apart, config, disk, store, pc, checkpoint_data, run, loaded,
                   hist, prev, faults>>

\* Mutant of PoolDrained: the pool is left without waiting for its futures.
PoolDrained_NoWait(k) == results = <<>>

\* The with ThreadPoolExecutor block is left: every future is done and every
\* result has been consumed.
PoolDrained(k) ==
    /\ \A i \in BatchIds(k) : task[k][i].st = "done"
    /\ results = <<>>

\* checkpoint_data['phase'] = ...; self._save_checkpoint(checkpoint_data)
AdvancePhase(k, to, next) ==
    /\ pc = PoolPc(k)
    /\ PoolDrained(k)
    /\ checkpoint_data' = [checkpoint_data EXCEPT !.phase = to]
    /\ IF enable_checkpoints
       THEN \E outcome \in SaveOutcomes :
               /\ Fault(outcome # "written")
               /\ disk' = FileAfterSave(disk, checkpoint_data', outcome)
               /\ hist' = [hist EXCEPT !.save_failed = @ \/ outcome # "written"]
               /\ pc' = IF IOErrorCaught(outcome) THEN next ELSE "aborted"
       ELSE /\ pc' = next
            /\ UNCHANGED <<disk, hist, faults>>
    /\ UNCHANGED <<apart, config, store, task, results, metrics, run, loaded, prev>>

EntitiesDone == AdvancePhase("entity", "relationships", "phase2")

RelationshipsDone == AdvancePhase("relationship", "complete", "verify")

\* Step 7 and the end of run_ingestion: get_stats, the clearing of the
\* checkpoint, the finally clause and _generate_report.
Finish ==
    /\ pc = "verify"
    /\ IF ShouldClear(checkpoint_data) /\ enable_checkpoints /\ disk.file # "absent"
       THEN \E outcome \in ClearOutcomes :
               /\ Fault(outcome # "removed")
               /\ disk' = FileAfterClear(disk, outcome)
               /\ hist' = [hist EXCEPT !.cleared = @ \/ outcome = "removed",
                                       !.clear_failed = @ \/ outcome # "removed"]
               /\ pc' = IF IOErrorCaught(outcome) THEN "done" ELSE "aborted"
       ELSE /\ pc' = "done"
            /\ UNCHANGED <<disk, hist, faults>>
    /\ UNCHANGED <<apart, config, store, checkpoint_data, task, results, metrics, run,
                   loaded, prev>>

\* _generate_report: 'success': self.metrics['errors'] == 0
ReportSuccess == metrics.errors = 0

\* What main returns once run_ingestion has returned or raised.
ExitCode == IF pc = "done" /\ ReportSuccess THEN 0 ELSE 1

\* The process is killed while run_ingestion is executing: memory is lost, the
\* checkpoint file and the store stay as they are.
Crash ==
    /\ pc \in {"startup", "phase1", "phase2", "verify",
               PoolPc("entity"), PoolPc("relationship")}
    /\ pc' = "crashed"
    /\ prev' = EndOfRun("crashed")
    /\ checkpoint_data' = FreshCheckpoint
    /\ task' = NoTasks
    /\ results' = <<>>
    /\ metrics' = ZeroMetrics
    /\ loaded' = FreshCheckpoint
    /\ hist' = ZeroHist
    /\ UNCHANGED <<apart, config, disk, store, run, faults>>

\* ------------------------------------------------------------- data loader
\* load_entities and load_relationships of src/ingestion/data_loader.py: the
\* files of the list in order, each read whole and cut into batches.  Record
\* n of file f is <<f, n>>.
FileRecords(f, len) == [n \in 1 .. len |-> <<f, n>>]

\* A data file: missing, or a JSON list of 0..MaxFileLen records.
DataFiles(f) ==
    {[exists |-> FALSE, records |-> <<>>]}
    \cup {[exists |-> TRUE, records |-> FileRecords(f, len)] : len \in 0 .. MaxFileLen}

\* Mutant of BatchFull: the batch is flushed one record late.
BatchFull_Late(batch, batch_size) == Len(batch) > batch_size

\* if len(batch) >= batch_size
BatchFull(batch, batch_size) == Len(batch) >= batch_size

InitLoader ==
    /\ \E kind \in Kinds, batch_size \in 1 .. MaxBatchSize :
       \E data_files \in [1 .. NumFiles -> UNION {DataFiles(f) : f \in 1 .. NumFiles}] :
          /\ \A f \in 1 .. NumFiles : data_files[f] \in DataFiles(f)
          /\ data_loader = [NoData EXCEPT !.kind = kind, !.files = data_files,
                                          !.batch_size = batch_size]
    /\ database = NoRows
    /\ pipelines = <<>>
    /\ files = {}
    /\ GlobalRegistry = TemplateRegistry
    /\ retry_attempts = 3
    /\ parallel_workers = 4
    /\ enable_checkpoints = TRUE
    /\ disk = NoFile
    /\ store = EmptyStore
    /\ NotStarted

\* for filename in entity_files: a missing file is passed over; a file that
\* exists is read with json.load and batch = [] is set.
OpenFile ==
    /\ data_loader.file <= NumFiles
    /\ data_loader.pos = 0
    /\ data_loader' =
          IF data_loader.files[data_loader.file].exists
          THEN [data_loader EXCEPT !.pos = 1, !.batch = <<>>]
          ELSE [data_loader EXCEPT !.file = @ + 1]
    /\ UNCHANGED <<pipeline_vars, database, pipelines, files, GlobalRegistry>>

\* for entity in entities: the record is appended, and a full batch is yielded.
NextRecord ==
    /\ data_loader.file <= NumFiles
    /\ data_loader.pos >= 1
    /\ data_loader.pos <= Len(data_loader.files[data_loader.file].records)
    /\ LET batch == Append(data_loader.batch,
                           data_loader.files[data_loader.file].records[data_loader.pos])
       IN data_loader' =
             IF BatchFull(batch, data_loader.batch_size)
             THEN [data_loader EXCEPT !.pos = @ + 1, !.batch = <<>>,
                                      !.yielded = Append(@, batch)]
             ELSE [data_loader EXCEPT !.pos = @ + 1, !.batch = batch]
    /\ UNCHANGED <<pipeline_vars, database, pipelines, files, GlobalRegistry>>

\* The records of the file are exhausted: if batch: yield batch.
EndOfFile ==
    /\ data_loader.file <= NumFiles
    /\ data_loader.pos = Len(data_loader.files[data_loader.file].records) + 1
    /\ data_loader' =
          [data_loader EXCEPT
              !.file = @ + 1, !.pos = 0, !.batch = <<>>,
              !.yielded = IF data_loader.batch # <<>> THEN Append(@, data_loader.batch) ELSE @]
    /\ UNCHANGED <<pipeline_vars, database, pipelines, files, GlobalRegistry>>

\* list(enumerate(...)) has consumed the generator: batch number n is the
\* n-th batch yielded, counted from 0.  A later run enumerates again.
Enumerated ==
    /\ data_loader.file = NumFiles + 1
    /\ Len(data_loader.enumerations) < MaxEnumerations
    /\ data_loader' = [data_loader EXCEPT
                          !.enumerations = Append(@, data_loader.yielded),
                          !.file = 1, !.pos = 0, !.batch = <<>>, !.yielded = <<>>]
    /\ UNCHANGED <<pipeline_vars, database, pipelines, files, GlobalRegistry>>

NextLoader == OpenFile \/ NextRecord \/ EndOfFile \/ Enumerated

\* ------------------------------------------------------------ smart upsert
\* batch_upsert_entities_smart of src/ingestion/spanner_client.py on the
\* Assets table, whose primary key is asset_id: one row per asset id.
Entities == [asset_id : AssetIds, entity_data : {"x", "y"}]

NodeBatches == UNION {[1 .. len -> Entities] : len \in 0 .. EntityBatchLen}

\* Rows another run wrote earlier.
EarlierRows == [id \in AssetIds |->
                  IF id = 1 THEN [exists |-> TRUE, entity_data |-> "x",
                                  created_at |-> 1, updated_at |-> 1]
                            ELSE NoRow]

\* SELECT asset_id, created_at FROM Assets WHERE asset_id IN UNNEST(@asset_ids)
ExistingEntities(rows, batch) ==
    {id \in AssetIds : rows[id].exists /\ \E n \in 1 .. Len(batch) : batch[n].asset_id = id}

\* Mutant of CreatedAt: created_at is the commit timestamp for every row.
CreatedAt_CommitTimestamp(rows, existing, id, now) == now

\* created_at = existing_entities[asset_id] for an update, COMMIT_TIMESTAMP
\* for an insert.
CreatedAt(rows, existing, id, now) ==
    IF id \in existing THEN rows[id].created_at ELSE now

RECURSIVE InsertOrUpdate(_, _, _, _, _)
\* The mutations of the batch, applied in order at commit time `now`; rows0 is
\* the table the snapshot read.
InsertOrUpdate(rows0, rows, batch, existing, now) ==
    IF batch = <<>> THEN rows
    ELSE LET entity == Head(batch) IN
         InsertOrUpdate(rows0,
                        [rows EXCEPT ![entity.asset_id] =
                            [exists |-> TRUE, entity_data |-> entity.entity_data,
                             created_at |-> CreatedAt(rows0, existing, entity.asset_id, now),
                             updated_at |-> now]],
                        Tail(batch), existing, now)

UpsertOutcomes == {"committed", "raised_inside", "not_connected"}

\* What batch_upsert_entities_smart returns and the rows it leaves, at commit
\* time `now`.
SmartUpsert(rows, batch, outcome, now) ==
    LET existing == ExistingEntities(rows, batch)
        updated_count == Cardinality({n \in 1 .. Len(batch) : batch[n].asset_id \in existing})
    IN  IF outcome = "not_connected"
        THEN [outcome |-> outcome, inserted |-> 0, updated |-> 0, errors |-> 0,
              before |-> rows, rows |-> rows]
        ELSE IF batch = <<>>
        THEN [outcome |-> "committed", inserted |-> 0, updated |-> 0, errors |-> 0,
              before |-> rows, rows |-> rows]
        ELSE IF outcome = "raised_inside"
        THEN [outcome |-> outcome, inserted |-> 0, updated |-> 0, errors |-> Len(batch),
              before |-> rows, rows |-> rows]
        ELSE [outcome |-> outcome, inserted |-> Len(batch) - updated_count,
              updated |-> updated_count, errors |-> 0, before |-> rows,
              rows |-> InsertOrUpdate(rows, rows, batch, existing, now)]

InitUpsert ==
    /\ \E batch \in NodeBatches, rows \in {NoRows.Assets, EarlierRows} :
          database = [NoRows EXCEPT !.Assets = rows, !.batch = batch,
                                    !.commit_timestamp = 1]
    /\ data_loader = NoData
    /\ pipelines = <<>>
    /\ files = {}
    /\ GlobalRegistry = TemplateRegistry
    /\ retry_attempts = 3
    /\ parallel_workers = 4
    /\ enable_checkpoints = TRUE
    /\ disk = NoFile
    /\ store = EmptyStore
    /\ NotStarted

\* A worker's client applies the batch; every commit has a later timestamp.
Upsert ==
    /\ Len(database.applications) < MaxApplications
    /\ \E outcome \in UpsertOutcomes :
          LET now == database.commit_timestamp + 1
              result == SmartUpsert(database.Assets, database.batch, outcome, now)
          IN database' = [database EXCEPT !.Assets = result.rows,
                                          !.commit_timestamp = now,
                                          !.applications = Append(@, result)]
    /\ UNCHANGED <<pipeline_vars, data_loader, pipelines, files, GlobalRegistry>>

NextUpsert == Upsert

\* ------------------------------------------------ checkpoint file names
\* The arguments of IngestionPipeline.__init__ that name the dataset, the
\* store target and the write mode.
Configurations ==
    [data_dir : {"d1", "d2"}, project_id : {"p", "p_x"}, instance_id : {"i1", "i2"},
     database_id : {"db", "x_db"}, upsert_mode : {"smart", "basic"}]

\* self.checkpoint_file = f".checkpoint_{project_id}_{database_id}_{upsert_mode}.json"
checkpoint_file(c) ==
    ".checkpoint_" \o c.project_id \o "_" \o c.database_id \o "_" \o c.upsert_mode \o ".json"

\* The completed node indices the file of that name holds, each with the
\* configuration that recorded it (history); empty when there is no file.
FileContent(name) ==
    IF \E f \in files : f.name = name
    THEN (CHOOSE f \in files : f.name = name).completed_entity_batches
    ELSE {}

Indices(completed) == {c.batch_num : c \in completed}

InitScope ==
    /\ pipelines = <<>>
    /\ files = {}
    /\ GlobalRegistry = TemplateRegistry
    /\ data_loader = NoData
    /\ database = NoRows
    /\ retry_attempts = 3
    /\ parallel_workers = 4
    /\ enable_checkpoints = TRUE
    /\ disk = NoFile
    /\ store = EmptyStore
    /\ NotStarted

\* A pipeline is constructed and its run loads the checkpoint of its name.
Construct(c) ==
    /\ Len(pipelines) < MaxPipelines
    /\ pipelines' = Append(pipelines,
                           [configuration |-> c,
                            checkpoint_file |-> checkpoint_file(c),
                            completed_entity_batches |-> FileContent(checkpoint_file(c)),
                            processed |-> {}, skipped |-> {}])
    /\ UNCHANGED <<pipeline_vars, data_loader, database, files, GlobalRegistry>>

\* The run of pipeline p takes node batch i: it is skipped when the loaded
\* checkpoint holds i; otherwise it is written, marked completed and the
\* checkpoint is saved under the pipeline's file name.
ProcessBatch(p, i) ==
    LET self == pipelines[p] IN
    /\ i \notin self.processed
    /\ IF i \in Indices(self.completed_entity_batches)
       THEN /\ pipelines' = [pipelines EXCEPT ![p].skipped = @ \cup {i},
                                              ![p].processed = @ \cup {i}]
            /\ files' = files
       ELSE LET completed == self.completed_entity_batches
                                \cup {[batch_num |-> i, by |-> self.configuration]}
            IN /\ pipelines' = [pipelines EXCEPT ![p].completed_entity_batches = completed,
                                                 ![p].processed = @ \cup {i}]
               /\ files' = {f \in files : f.name # self.checkpoint_file}
                           \cup {[name |-> self.checkpoint_file,
                                  completed_entity_batches |-> completed]}
    /\ UNCHANGED <<pipeline_vars, data_loader, database, GlobalRegistry>>

NextScope ==
    \/ \E c \in Configurations : Construct(c)
    \/ \E p \in 1 .. Len(pipelines) : \E i \in BatchIds("entity") : ProcessBatch(p, i)

\* ------------------------------------------------------ template registry
\* The registration functions of src/model/template/registrations: the
\* EntityTemplate each of them registers.
register_customer_template ==
    [entity_kind |-> "EK_CUSTOMER",
     allowed_parents |-> {},
     allowed_parent_relationships |-> {},
     allowed_children |-> {"EK_PRODUCT", "EK_CAGE", "EK_DATACENTER"},
     allowed_child_relationships |-> {"RK_OWNS", "RK_FULFILLED_BY"}]

register_product_template ==
    [entity_kind |-> "EK_PRODUCT",
     allowed_parents |-> {"EK_CUSTOMER", "EK_CAGE", "EK_CABINET"},
     allowed_parent_relationships |-> {"RK_OWNED_BY", "RK_FULFILLED_BY"},
     allowed_children |-> {"EK_CAGE", "EK_CABINET"},
     allowed_child_relationships |-> {"RK_FULFILLED_BY"}]

register_datacenter_template ==
    [entity_kind |-> "EK_DATACENTER",
     allowed_parents |-> {},
     allowed_parent_relationships |-> {},
     allowed_children |-> {"EK_UTILITY", "EK_UPS", "EK_PDU", "EK_CAGE", "EK_CABINET"},
     allowed_child_relationships |-> {"RK_CONTAINS"}]

register_utility_template ==
    [entity_kind |-> "EK_UTILITY",
     allowed_parents |-> {"EK_DATACENTER"},
     allowed_parent_relationships |-> {"RK_CONTAINED_BY"},
     allowed_children |-> {"EK_PDU"},
     allowed_child_relationships |-> {"RK_FEEDS_POWER_TO"}]

register_ups_template ==
    [entity_kind |-> "EK_UPS",
     allowed_parents |-> {"EK_UTILITY"},
     allowed_parent_relationships |-> {"RK_POWERED_BY"},
     allowed_children |-> {"EK_PDU"},
     allowed_child_relationships |-> {"RK_FEEDS_POWER_TO"}]

register_pdu_template ==
    [entity_kind |-> "EK_PDU",
     allowed_parents |-> {"EK_DATACENTER", "EK_UTILITY", "EK_UPS"},
     allowed_parent_relationships |-> {"RK_CONTAINED_BY", "RK_POWERED_BY"},
     allowed_children |-> {"EK_CAGE"},
     allowed_child_relationships |-> {"RK_FEEDS_POWER_TO"}]

register_cage_template ==
    [entity_kind |-> "EK_CAGE",
     allowed_parents |-> {"EK_CUSTOMER", "EK_DATACENTER", "EK_PDU", "EK_PRODUCT"},
     allowed_parent_relationships |-> {"RK_OWNED_BY", "RK_CONTAINED_BY", "RK_POWERED_BY",
                                       "RK_FULFILLS"},
     allowed_children |-> {"EK_CABINET", "EK_PRODUCT"},
     allowed_child_relationships |-> {"RK_CONTAINS", "RK_FEEDS_POWER_TO", "RK_FULFILLS"}]

register_cabinet_template ==
    [entity_kind |-> "EK_CABINET",
     allowed_parents |-> {"EK_CUSTOMER", "EK_DATACENTER", "EK_CAGE", "EK_PRODUCT"},
     allowed_parent_relationships |-> {"RK_OWNED_BY", "RK_CONTAINED_BY", "RK_POWERED_BY",
                                       "RK_FULFILLS"},
     allowed_children |-> {"EK_PRODUCT"},
     allowed_child_relationships |-> {"RK_FULFILLS"}]

\* register_all_templates: the registration functions in the order of the calls.
register_all_templates ==
    <<register_customer_template, register_product_template, register_datacenter_template,
      register_utility_template, register_ups_template, register_pdu_template,
      register_cage_template, register_cabinet_template>>

\* self._templates.get(entity_kind)
get_template(templates, entity_kind) == templates[entity_kind]

\* _validate_relationship: the ValueError it raises, or "none".
validate_relationship(templates, relationship) ==
    LET a_kind == relationship.a
        z_kind == relationship.z
        rel_kind == relationship.kind
        a_template == get_template(templates, a_kind)
        z_template == get_template(templates, z_kind)
    IN  IF a_template = None \/ z_template = None THEN "missing_templates"
        ELSE IF z_kind \notin a_template.allowed_children THEN "not_in_allowed_children"
        ELSE IF rel_kind \notin a_template.allowed_child_relationships
             THEN "source_cannot_create"
        ELSE IF a_kind \notin z_template.allowed_parents THEN "not_in_allowed_parents"
        ELSE IF rel_kind \notin z_template.allowed_parent_relationships
             THEN "target_cannot_accept"
        ELSE "none"

RECURSIVE validate_relationships(_, _)
\* for relationship in relationships: the first error ends the loop.
validate_relationships(templates, relationships) ==
    IF relationships = <<>> THEN "none"
    ELSE LET raised == validate_relationship(templates, Head(relationships))
         IN IF raised # "none" THEN raised
            ELSE validate_relationships(templates, Tail(relationships))

\* validate_subgraph: the ValueError it raises, or "none".
validate_subgraph(templates, entities, relationships) ==
    IF \E n \in 1 .. Len(entities) : get_template(templates, entities[n]) = None
    THEN "no_template_registered"
    ELSE validate_relationships(templates, relationships)

\* The subgraphs of test_valid_subgraph and of test_power_chain_validation.
OwnershipSubgraph ==
    [entities |-> <<"EK_CUSTOMER", "EK_CAGE", "EK_CABINET">>,
     relationships |-> <<[a |-> "EK_CUSTOMER", z |-> "EK_CAGE", kind |-> "RK_OWNS"],
                         [a |-> "EK_CAGE", z |-> "EK_CABINET", kind |-> "RK_CONTAINS"]>>]

PowerChain ==
    [entities |-> <<"EK_UTILITY", "EK_UPS", "EK_PDU", "EK_CAGE", "EK_CABINET">>,
     relationships |-> <<[a |-> "EK_UTILITY", z |-> "EK_UPS", kind |-> "RK_FEEDS_POWER_TO"],
                         [a |-> "EK_UPS", z |-> "EK_PDU", kind |-> "RK_FEEDS_POWER_TO"],
                         [a |-> "EK_PDU", z |-> "EK_CAGE", kind |-> "RK_FEEDS_POWER_TO"],
                         [a |-> "EK_CAGE", z |-> "EK_CABINET", kind |-> "RK_FEEDS_POWER_TO"]>>]

\* The subgraphs validated: the two above, and every single relationship
\* between two entities.
Subgraphs ==
    {OwnershipSubgraph, PowerChain}
    \cup {[entities |-> <<a, z>>, relationships |-> <<[a |-> a, z |-> z, kind |-> kind]>>] :
             a \in EntityKind, z \in EntityKind, kind \in RelationshipKind}

InitRegistry ==
    /\ GlobalRegistry = TemplateRegistry
    /\ data_loader = NoData
    /\ database = NoRows
    /\ pipelines = <<>>
    /\ files = {}
    /\ retry_attempts = 3
    /\ parallel_workers = 4
    /\ enable_checkpoints = TRUE
    /\ disk = NoFile
    /\ store = EmptyStore
    /\ NotStarted

\* The next registration function of register_all_templates:
\* GlobalRegistry.register_template(template).
RegisterTemplate ==
    /\ GlobalRegistry.raised = "not_called"
    /\ GlobalRegistry.registered < Len(register_all_templates)
    /\ LET template == register_all_templates[GlobalRegistry.registered + 1] IN
       GlobalRegistry' = [GlobalRegistry EXCEPT !.templates[template.entity_kind] = template,
                                                !.registered = @ + 1]
    /\ UNCHANGED <<pipeline_vars, data_loader, database, pipelines, files>>

\* GlobalRegistry.validate_subgraph(entities, relationships) is called and
\* raises or returns.
ValidateSubgraph(subgraph) ==
    /\ GlobalRegistry.raised = "not_called"
    /\ GlobalRegistry' =
          [GlobalRegistry EXCEPT
              !.entities = subgraph.entities,
              !.relationships = subgraph.relationships,
              !.raised = validate_subgraph(GlobalRegistry.templates, subgraph.entities,
                                           subgraph.relationships)]
    /\ UNCHANGED <<pipeline_vars, data_loader, database, pipelines, files>>

\* The caller has taken the outcome of the validation.
ValidateReturns ==
    /\ GlobalRegistry.raised # "not_called"
    /\ GlobalRegistry' = [GlobalRegistry EXCEPT !.entities = <<>>, !.relationships = <<>>,
                                                !.raised = "not_called"]
    /\ UNCHANGED <<pipeline_vars, data_loader, database, pipelines, files>>

NextRegistry ==
    \/ RegisterTemplate
    \/ \E subgraph \in Subgraphs : ValidateSubgraph(subgraph)
    \/ ValidateReturns

\* ================================================================ claims
InRun == pc \notin {"idle", "crashed"}

CalledOf(k) == {i \in BatchIds(k) : <<k, i>> \in hist.called}

FailedOf(k) == {i \in BatchIds(k) : <<k, i>> \in hist.failed}

WrittenOf(k) == {i \in BatchIds(k) : <<k, i>> \in hist.written}

Unresolved(k) == {i \in BatchIds(k) : task[k][i].st \in Active \cup {"queued"}}

InResults(k, i) == \E n \in 1 .. Len(results) : results[n] = <<k, i>>

FailedBatches == metrics.entity_batches_failed + metrics.relationship_batches_failed

\* C1 (as stated): in every reachable state, every batch index in a completed
\* set of the checkpoint, in memory or on disk, belongs to a batch whose
\* records the store holds, whichever way a store write failed.
C1_CheckpointSound ==
    \A k \in Kinds :
        /\ Completed(checkpoint_data, k) \subseteq store[k]
        /\ disk.file = "saved" => Completed(disk.data, k) \subseteq store[k]

\* The node indices the loaded checkpoint marks completed.
LoadedNodes == Completed(loaded, "entity") \cap BatchIds("entity")

\* C2: no store call is made and no store handle is opened for a node batch
\* the loaded checkpoint marks completed.
C2_CompletedUntouched ==
    loaded.phase = "entities" =>
        \A i \in LoadedNodes :
            /\ i \notin CalledOf("entity")
            /\ task["entity"][i].st \notin Active
            /\ ~task["entity"][i].connected

\* C2: a finished run that loaded phase 'entities' with completed node set S
\* made store calls exactly for the node indices outside S and reports
\* |S \cap {0..N-1}| skipped node batches.
C2_ExactCalls ==
    /\ CalledOf("entity") = BatchIds("entity") \ LoadedNodes
    /\ metrics.entity_batches_skipped = Cardinality(LoadedNodes)

C3_PhaseOrdering ==
    (\E i \in BatchIds("relationship") : task["relationship"][i].st # "idle") =>
        /\ checkpoint_data.phase # "entities"
        /\ Unresolved("entity") = {}
        /\ \A i \in BatchIds("entity") : ~InResults("entity", i)

C3_Witness ==
    /\ \E i \in BatchIds("relationship") : task["relationship"][i].st = "save"
    /\ "entity" \in hist.enumerated
    /\ FailedOf("entity") # {}
    /\ parallel_workers > 1

NothingDispatched == \A k \in Kinds : \A i \in BatchIds(k) : task[k][i].st = "idle"

\* C4, first half: a run that loaded phase 'relationships' enumerates no node
\* batch, makes no node store call and leaves the node table alone.
C4_NodePhaseSkipped ==
    (InRun /\ loaded.phase = "relationships") =>
        /\ "entity" \notin hist.enumerated
        /\ \A i \in BatchIds("entity") : task["entity"][i].st = "idle"
        /\ CalledOf("entity") = {}
        /\ store["entity"] = hist.store0["entity"]

\* C4, second half: a run that loaded phase 'complete' dispatches no batch of
\* either kind and does not change the store contents.
C4_CompleteDispatchesNothing ==
    (InRun /\ loaded.phase = "complete") =>
        /\ hist.enumerated = {}
        /\ NothingDispatched
        /\ hist.called = {}
        /\ store = hist.store0

\* C4 (as stated): ... and a run that loaded phase 'complete' changes neither
\* the store contents nor the durable checkpoint.
C4_PhaseSelection_Original ==
    /\ C4_NodePhaseSkipped
    /\ C4_CompleteDispatchesNothing
    /\ (InRun /\ loaded.phase = "complete") => disk = hist.disk0

\* C4 (amended): a run that loaded phase 'relationships' enumerates no node
\* batch and makes no node store call; a run that loaded phase 'complete'
\* dispatches no batch and leaves the store contents unchanged, and the only
\* change it makes to the durable checkpoint is to remove the file at its end.
C4_PhaseSelection ==
    /\ C4_NodePhaseSkipped
    /\ C4_CompleteDispatchesNothing
    /\ (InRun /\ loaded.phase = "complete") =>
          /\ disk \in {hist.disk0, NoFile}
          /\ pc # "done" => disk = hist.disk0
          /\ (pc = "done" /\ ~hist.clear_failed) => disk = NoFile

C4_Witness ==
    /\ pc = "done"
    /\ loaded.phase = "complete"
    /\ hist.disk0.file = "saved"
    /\ disk = NoFile

\* C5: a batch whose store call raises on every attempt, with R >= 1 attempts
\* allowed, gets exactly R store attempts and R - 1 increments of the retry
\* counter from its worker, resolves as failed and is not added to the
\* completed set; no batch gets more than R attempts.
C5_RetryExhaustion ==
    \A k \in Kinds : \A i \in BatchIds(k) :
        LET t == task[k][i] IN
        /\ t.calls <= retry_attempts
        /\ (retry_attempts >= 1 /\ t.raised = retry_attempts) =>
              /\ t.st = "done"
              /\ t.result = "failed"
        /\ (retry_attempts >= 1 /\ t.result = "failed" /\ InResults(k, i)) =>
              /\ t.calls = retry_attempts
              /\ t.raised = retry_attempts
              /\ t.incs = retry_attempts - 1
              /\ i \notin Completed(checkpoint_data, k)

C5_Witness ==
    \E k \in Kinds : \E i \in BatchIds(k) :
        /\ retry_attempts >= 2
        /\ InResults(k, i)
        /\ task[k][i].result = "failed"
        /\ task[k][i].raised = retry_attempts
        /\ task[k][i].incs = retry_attempts - 1

\* C6 (as stated): with node batches A = 0 and C = 2 whose store write
\* succeeds and B = 1 whose store write fails at every attempt, all in one
\* pool, the run ends with A and C in the completed set, B absent from it and
\* success = false.
C6_FailureIsolation ==
    ( /\ pc = "done"
      /\ NumEntityBatches >= 3
      /\ hist.enumerated = Kinds
      /\ loaded = FreshCheckpoint
      /\ {0, 2} \subseteq WrittenOf("entity")
      /\ 1 \in CalledOf("entity")
      /\ 1 \notin WrittenOf("entity") ) =>
        /\ {0, 2} \subseteq Completed(checkpoint_data, "entity")
        /\ 1 \notin Completed(checkpoint_data, "entity")
        /\ ~ReportSuccess

\* C7: with checkpoints enabled and the removal of the file succeeding, a run
\* that reaches phase 'complete' with no failed batch in either phase ends
\* with no checkpoint file.
C7_ClearedOnSuccess ==
    ( /\ pc = "done"
      /\ enable_checkpoints
      /\ checkpoint_data.phase = "complete"
      /\ FailedBatches = 0
      /\ ~hist.clear_failed ) => disk = NoFile

C7_Witness ==
    /\ pc = "done"
    /\ enable_checkpoints
    /\ checkpoint_data.phase = "complete"
    /\ FailedBatches = 0
    /\ hist.enumerated = Kinds
    /\ hist.cleared
    /\ disk = NoFile

\* C8 (as stated): a run in which a batch ended as failed never deletes the
\* checkpoint file; when it returns, the file is in place and the failed
\* batch's index is absent from its completed set.
C8_RetainedOnFailure ==
    ( /\ pc = "done"
      /\ enable_checkpoints
      /\ ~hist.save_failed
      /\ hist.failed # {} ) =>
        /\ ~hist.cleared
        /\ disk.file = "saved"
        /\ \A k \in Kinds : FailedOf(k) \cap Completed(disk.data, k) = {}

\* C9 (as stated): the run after a run that finished with a failed batch makes
\* store calls only for the batches that failed in it, and none for a batch
\* the earlier run applied.
C9_OnlyFailedRetried ==
    ( /\ InRun
      /\ enable_checkpoints
      /\ prev.ended = "done"
      /\ ~prev.io_failed
      /\ prev.failed # {} ) =>
        /\ hist.called \subseteq prev.failed
        /\ hist.called \cap prev.applied = {}

\* C10 (as stated): a run started from a checkpoint file left by an earlier
\* run or interruption sends to the store every batch whose index is absent
\* from that checkpoint's completed set for its kind, whatever its phase.
C10_UncheckedReprocessed ==
    ( /\ pc = "done"
      /\ hist.resumed
      /\ retry_attempts >= 1 ) =>
        \A k \in Kinds :
            BatchIds(k) \ Completed(loaded, k) \subseteq CalledOf(k)

\* C11 (as stated): for every run that returns a report, report.success is
\* true if and only if no batch of either phase ended as failed, also when a
\* store result carries a non-zero 'errors' count without the batch failing.
C11_SuccessFlag ==
    pc = "done" => (ReportSuccess <=> FailedBatches = 0)

\* The pool of kind k has returned in this run.
PoolReturned(k) ==
    /\ k \in hist.enumerated
    /\ pc \in {"phase2", "relationships_pool", "verify", "done"}
    /\ pc # PoolPc(k)

OutcomeOf(k, r) == {i \in BatchIds(k) : task[k][i].st = "done" /\ task[k][i].result = r}

BatchesProcessed(k) == IF k = "entity" THEN metrics.entity_batches_processed
                                       ELSE metrics.relationship_batches_processed

BatchesSkipped(k) == IF k = "entity" THEN metrics.entity_batches_skipped
                                     ELSE metrics.relationship_batches_skipped

BatchesFailed(k) == IF k = "entity" THEN metrics.entity_batches_failed
                                    ELSE metrics.relationship_batches_failed

\* C12, state part: once the pool of a phase has returned, every enumerated
\* batch has exactly one outcome, and the processed counter equals the number
\* of enumerated batches and equals applied + skipped + failed.
C12_AllAccounted ==
    \A k \in Kinds :
        PoolReturned(k) =>
            /\ \A i \in BatchIds(k) :
                  /\ task[k][i].st = "done"
                  /\ task[k][i].result \in {"applied", "skipped", "failed"}
            /\ BatchesProcessed(k) = Cardinality(BatchIds(k))
            /\ BatchesSkipped(k) = Cardinality(OutcomeOf(k, "skipped"))
            /\ BatchesFailed(k) = Cardinality(OutcomeOf(k, "failed"))
            /\ BatchesProcessed(k) = Cardinality(OutcomeOf(k, "applied"))
                                     + BatchesSkipped(k) + BatchesFailed(k)

\* C12, step part: within a run a batch is submitted from the not-submitted
\* state only, and a submitted batch is never submitted again.
C12_SubmittedOnce ==
    \A k \in Kinds : \A i \in BatchIds(k) :
        /\ (task'[k][i].st = "queued" /\ task[k][i].st # "queued") => task[k][i].st = "idle"
        /\ (task[k][i].st # "idle" /\ run' = run /\ pc' # "crashed") => task'[k][i].st # "idle"

\* C12: when a phase's worker pool returns, every enumerated batch index of
\* the phase has been submitted exactly once and has exactly one outcome
\* (applied, skipped or failed), whichever batches failed; batches_processed
\* equals the number of enumerated batches and applied + skipped + failed.
C12_CompleteDispatch == []C12_AllAccounted /\ [][C12_SubmittedOnce]_vars

C12_Witness ==
    /\ PoolReturned("entity")
    /\ OutcomeOf("entity", "applied") # {}
    /\ OutcomeOf("entity", "skipped") # {}
    /\ OutcomeOf("entity", "failed") # {}
    /\ metrics.entity_batches_processed = NumEntityBatches

\* Within a run the phase changes only from 'entities' to 'relationships' and
\* from 'relationships' to 'complete'.
PhaseStepsForward ==
    (run' = run /\ pc' # "crashed" /\ checkpoint_data'.phase # checkpoint_data.phase) =>
        <<checkpoint_data.phase, checkpoint_data'.phase>> \in
            {<<"entities", "relationships">>, <<"relationships", "complete">>}

PassedStartup == pc = "phase1" /\ retry_attempts >= 1

Returned == pc = "done" /\ checkpoint_data.phase = "complete"

\* C13 (as stated): with R >= 1 and store calls that return or raise, under
\* fair scheduling every run that passes startup eventually moves the phase
\* from nodes to edges, then from edges to complete, and returns a report,
\* whatever batches fail; the phase never moves backwards and never goes from
\* nodes directly to complete.
C13_Progress ==
    /\ PassedStartup ~> Returned
    /\ (PassedStartup /\ checkpoint_data.phase = "entities")
          ~> (checkpoint_data.phase = "relationships")
    /\ [][PhaseStepsForward]_vars

\* C13 for runs whose loaded checkpoint holds a phase: the progress and the
\* order of the phases as stated.
C13_ProgressWithPhase ==
    /\ (PassedStartup /\ ~PhaseTestRaises(checkpoint_data)) ~> Returned
    /\ (PassedStartup /\ checkpoint_data.phase = "entities")
          ~> (checkpoint_data.phase = "relationships")
    /\ [][PhaseStepsForward]_vars

\* A checkpoint file that exists and is not a well-formed checkpoint.
Malformed(f) ==
    \/ f.file = "corrupt"
    \/ f.file = "saved" /\ (f.data.phase = "absent" \/ f.data.timestamp = "absent")

\* C14 (as stated): whatever content of the checkpoint file is not a
\* well-formed checkpoint (not JSON, not an object, an object without 'phase'
\* or without 'timestamp'), the run does not raise because of it and proceeds
\* from a fresh checkpoint: phase 'entities', both completed sets empty.
C14_CorruptNeverFatal ==
    (InRun /\ enable_checkpoints /\ Malformed(hist.disk0)) =>
        /\ loaded = FreshCheckpoint
        /\ ~hist.key_error

\* C14 for a file that json.load or data.get cannot read: the run proceeds
\* from a fresh checkpoint.
C14_UnreadableIsFresh ==
    (InRun /\ enable_checkpoints /\ hist.disk0.file = "corrupt") =>
        /\ loaded = FreshCheckpoint
        /\ ~hist.key_error

\* The outcome of a batch as the store calls alone determine it: skipped when
\* the loaded checkpoint holds its index, applied when a store call for it
\* returned, failed otherwise.
OutcomeByStore(k, i) ==
    IF i \in Completed(loaded, k) THEN "skipped"
    ELSE IF i \in Completed(checkpoint_data, k) THEN "applied"
    ELSE "failed"

\* C15: whichever checkpoint saves and clears fail with an I/O error, the run
\* raises no exception because of it, and the batch outcomes, the phase
\* transitions and the report counters are those the store calls determine,
\* as in the run where every save succeeds; only the file differs.
C15_IOErrorsNeverHalt ==
    /\ (hist.save_failed \/ hist.clear_failed) => pc # "aborted"
    /\ \A k \in Kinds : \A i \in BatchIds(k) :
          task[k][i].st = "done" => task[k][i].result = OutcomeByStore(k, i)
    /\ (pc = "done" /\ loaded.phase \in {"entities", "relationships", "complete"}) =>
          /\ checkpoint_data.phase = "complete"
          /\ \A k \in hist.enumerated :
                /\ BatchesProcessed(k) = Cardinality(BatchIds(k))
                /\ BatchesFailed(k) = Cardinality(FailedOf(k))
                /\ BatchesSkipped(k) = Cardinality(Completed(loaded, k) \cap BatchIds(k))

C15_Witness ==
    /\ pc = "done"
    /\ hist.save_failed
    /\ hist.clear_failed
    /\ hist.enumerated = Kinds
    /\ OutcomeOf("entity", "applied") = BatchIds("entity")
    /\ checkpoint_data.phase = "complete"

\* C16, frame part: with checkpoints disabled a run does not read, write or
\* delete the checkpoint file and no batch is skipped.
C16_FileUntouched ==
    (InRun /\ ~enable_checkpoints) =>
        /\ loaded = FreshCheckpoint
        /\ ~hist.key_error
        /\ disk = hist.disk0
        /\ ~hist.cleared
        /\ \A k \in Kinds :
              /\ BatchesSkipped(k) = 0
              /\ OutcomeOf(k, "skipped") = {}

\* C16, dispatch part: the finished run enumerated both kinds and made a store
\* call for every batch.
C16_AllSent ==
    /\ hist.enumerated = Kinds
    /\ \A k \in Kinds : CalledOf(k) = BatchIds(k)

AbortedBeforeDispatch ==
    /\ NothingDispatched
    /\ hist.enumerated = {}
    /\ hist.called = {}
    /\ store = hist.store0
    /\ disk = hist.disk0
    /\ pc # "done"
    /\ pc = "aborted" => ExitCode # 0

\* C19 (as stated): when validation fails, the store is unreachable for the
\* main connection, or schema setup fails, the run aborts before any batch is
\* submitted or sent to the store, the durable checkpoint is unchanged, and
\* the top-level caller exits non-zero.
C19_FatalStartup ==
    (InRun /\ (hist.startup_failed \/ hist.schema_failed)) => AbortedBeforeDispatch

\* C19 for a failed validation and an unreachable store alone.
C19_ValidationOrConnection ==
    (InRun /\ hist.startup_failed) => (pc = "aborted" /\ AbortedBeforeDispatch)

RECURSIVE Flatten(_)
Flatten(batches) == IF batches = <<>> THEN <<>>
                    ELSE Head(batches) \o Flatten(Tail(batches))

RECURSIVE RecordsFrom(_)
\* The records of the files f .. NumFiles that exist, in file order.
RecordsFrom(f) ==
    IF f > NumFiles THEN <<>>
    ELSE (IF data_loader.files[f].exists THEN data_loader.files[f].records ELSE <<>>)
         \o RecordsFrom(f + 1)

WellBatched(batches) ==
    \A n \in 1 .. Len(batches) :
        Len(batches[n]) >= 1 /\ Len(batches[n]) <= data_loader.batch_size

\* C20: for a fixed dataset and batch size every enumeration of load_entities
\* and of load_relationships yields the same sequence of batches, so a batch
\* index names the same records on every run; every batch is non-empty and
\* has at most batch_size records; every record of the dataset is in exactly
\* one batch, in file order.
C20_StableBatchIndices ==
    /\ WellBatched(data_loader.yielded)
    /\ \A e \in 1 .. Len(data_loader.enumerations) :
          /\ WellBatched(data_loader.enumerations[e])
          /\ Flatten(data_loader.enumerations[e]) = RecordsFrom(1)
          /\ data_loader.enumerations[e] = data_loader.enumerations[1]

C20_Witness ==
    /\ Len(data_loader.enumerations) = MaxEnumerations
    /\ Len(data_loader.enumerations[1]) >= 3
    /\ \E n \in 1 .. Len(data_loader.enumerations[1]) :
          Len(data_loader.enumerations[1][n]) < data_loader.batch_size
    /\ \E f \in 1 .. NumFiles : ~data_loader.files[f].exists
    /\ data_loader.enumerations[2] = data_loader.enumerations[1]

\* The stored records: keys, content and created_at of the rows.
Stored(rows) ==
    [id \in AssetIds |-> [exists |-> rows[id].exists, entity_data |-> rows[id].entity_data,
                          created_at |-> rows[id].created_at]]

Committed(n) == database.applications[n].outcome = "committed"

\* C18: in smart mode a node batch applied a second time leaves the stored
\* records (keys, content, created_at; one row per key) as the first
\* application left them; the first application on an empty table reports
\* inserted = batch size and updated = 0, the second inserted = 0 and
\* updated = batch size.
C18_IdempotentUpsert ==
    LET apps == database.applications IN
    /\ \A m, n \in 1 .. Len(apps) :
          (m < n /\ Committed(m) /\ Committed(n)) =>
              /\ Stored(apps[n].rows) = Stored(apps[m].rows)
              /\ apps[n].inserted = 0
              /\ apps[n].updated = Len(database.batch)
    /\ \A n \in 1 .. Len(apps) :
          (Committed(n) /\ apps[n].before = NoRows.Assets) =>
              /\ apps[n].inserted = Len(database.batch)
              /\ apps[n].updated = 0
    /\ \A id \in AssetIds :
          database.Assets[id].exists => database.Assets[id].created_at <= database.Assets[id].updated_at

C18_Witness ==
    /\ Len(database.applications) = 2
    /\ Committed(1)
    /\ Committed(2)
    /\ database.applications[1].before = NoRows.Assets
    /\ Len(database.batch) = EntityBatchLen
    /\ database.applications[1].inserted = EntityBatchLen
    /\ database.applications[2].updated = EntityBatchLen
    /\ \A id \in AssetIds : database.Assets[id].exists
    /\ \E id \in AssetIds : database.Assets[id].updated_at > database.Assets[id].created_at

\* C17 (as stated): two pipeline configurations that differ in the dataset,
\* the store target (project, instance or database) or the write mode use
\* different checkpoint files, so no run skips a batch because of a completed
\* index that a run of another configuration recorded.
C17_CheckpointScoping ==
    /\ \A p, q \in 1 .. Len(pipelines) :
          pipelines[p].configuration # pipelines[q].configuration =>
              pipelines[p].checkpoint_file # pipelines[q].checkpoint_file
    /\ \A p \in 1 .. Len(pipelines) :
          \A c \in pipelines[p].completed_entity_batches :
              c.batch_num \in pipelines[p].skipped => c.by = pipelines[p].configuration

\* C17 for the parts of the configuration the file name holds and that hold
\* no underscore: pipelines that differ in project, database or write mode
\* only use different files.
C17_NamedPartsScoped ==
    \A p, q \in 1 .. Len(pipelines) :
        LET a == pipelines[p].configuration
            b == pipelines[q].configuration
        IN (/\ {a.project_id, b.project_id} \subseteq {"p"}
            /\ {a.database_id, b.database_id} \subseteq {"db"}
            /\ a.upsert_mode # b.upsert_mode) =>
               pipelines[p].checkpoint_file # pipelines[q].checkpoint_file

AllRegistered == GlobalRegistry.registered = Len(register_all_templates)

Validated(subgraph) ==
    /\ GlobalRegistry.entities = subgraph.entities
    /\ GlobalRegistry.relationships = subgraph.relationships
    /\ GlobalRegistry.raised # "not_called"

\* C21 (as stated): after register_all_templates, validate_subgraph raises no
\* error for the subgraph Customer -OWNS-> Cage, Cage -CONTAINS-> Cabinet and
\* none for the power chain Utility -> UPS -> PDU -> Cage -> Cabinet of
\* FEEDS_POWER_TO relationships.
C21_ReferenceSubgraphsValid ==
    (AllRegistered /\ (Validated(OwnershipSubgraph) \/ Validated(PowerChain))) =>
        GlobalRegistry.raised = "none"

\* Workers inside _save_checkpoint between the copy of the sets and the end
\* of the file write.
Saving == {<<k, i>> \in Kinds \X (0 .. NumEntityBatches + NumRelBatches) :
              i \in BatchIds(k) /\ task[k][i].st = "write"}

\* C22 (as stated), the save section: in every interleaving of the worker
\* threads at most one worker at a time is inside the serialize-and-write
\* section of the checkpoint save.
C22_MutualExclusion == Cardinality(Saving) <= 1

\* C23 (as stated): the total_retries of the final report equals the number
\* of failed-then-retried attempts over all batches of both phases, under
\* every interleaving of the read and the write of the counter increment.
C23_NoLostRetries == pc = "done" => metrics.total_retries = hist.retried

\* Batches for which a worker has returned an applied outcome.
Applied(k) == {i \in BatchIds(k) : task[k][i].st = "done" /\ task[k][i].result = "applied"}

\* C24 (as stated): with checkpoints enabled and every file write succeeding,
\* once a worker has returned an applied outcome for batch i the checkpoint
\* file holds i in every later state of the run, under every interleaving of
\* concurrent saves.
C24_DurableProgress ==
    ( /\ enable_checkpoints
      /\ pc \in {"entities_pool", "phase2", "relationships_pool", "verify"}
      /\ ~hist.save_failed ) =>
        \A k \in Kinds : \A i \in Applied(k) :
            disk.file = "saved" /\ i \in Completed(disk.data, k)

\* A save of this run overwrites a saved checkpoint file.
Overwritten == run' = run /\ disk.file = "saved" /\ disk'.file = "saved"

\* C25 (as stated): within a run, across any sequence of concurrent saves,
\* neither completed set stored on disk ever loses an index: each successive
\* file content is a superset of the previous one, until the file is cleared.
C25_MonotoneCheckpoint ==
    [][Overwritten => \A k \in Kinds : Completed(disk.data, k) \subseteq Completed(disk'.data, k)]_vars

\* Tasks whose worker holds a connected client.
Connected(k) == {i \in BatchIds(k) : task[k][i].connected}

\* C26: every client a worker connects for an attempt is disconnected before
\* the worker starts its next attempt or returns, on success, on a retried
\* failure and on exhausted retries; when the worker pool of a phase has
\* returned, no worker-created client is still connected.
C26_HandleRelease ==
    \A k \in Kinds :
        /\ \A i \in Connected(k) : task[k][i].st \in {"save", "write"}
        /\ (pc # PoolPc(k)) => Connected(k) = {}

C26_Witness ==
    /\ PoolReturned("entity")
    /\ hist.retried >= 1
    /\ OutcomeOf("entity", "applied") # {}
    /\ OutcomeOf("entity", "failed") # {}
    /\ Connected("entity") = {}

Tasks == {<<k, i>> \in Kinds \X (0 .. NumEntityBatches + NumRelBatches) : i \in BatchIds(k)}

\* C28 (as stated): a worker whose attempt number a (counted from 0) failed
\* and was not the final one sleeps 2^(a-1) time units, that is, twice its
\* sleep is 2^a; a worker sleeps or counts a retry only after an attempt that
\* was not the final one.
C28_BackoffSchedule_Original ==
    \A <<k, i>> \in Tasks :
        task[k][i].st \in {"sleep", "inc"} =>
            /\ task[k][i].attempt < retry_attempts - 1
            /\ task[k][i].st = "sleep" => 2 * task[k][i].wait_time = Pow2(task[k][i].attempt)

\* C28 (amended): after a failed attempt number a (counted from 0) that is not
\* the final one (a < R - 1) the worker sleeps 2^a time units before the next
\* attempt; after the final failed attempt there is no sleep and no increment
\* of the retry counter, so a batch that failed made R - 1 increments.
C28_BackoffSchedule ==
    \A <<k, i>> \in Tasks :
        /\ task[k][i].st \in {"sleep", "inc"} =>
              /\ task[k][i].attempt < retry_attempts - 1
              /\ task[k][i].raised = task[k][i].attempt + 1
              /\ task[k][i].incs = task[k][i].attempt
        /\ task[k][i].st = "sleep" => task[k][i].wait_time = Pow2(task[k][i].attempt)
        /\ (task[k][i].result = "failed" /\ InResults(k, i) /\ retry_attempts >= 1) =>
              task[k][i].incs = retry_attempts - 1

C28_Witness ==
    \E <<k, i>> \in Tasks : \E <<l, j>> \in Tasks :
        /\ retry_attempts = 3
        /\ task[k][i].st = "sleep"
        /\ task[k][i].attempt = 1
        /\ task[k][i].wait_time = 2
        /\ <<l, j>> # <<k, i>>
        /\ task[l][j].st = "try"

PhaseRank(phase) ==
    CASE phase = "entities" -> 0
      [] phase = "relationships" -> 1
      [] phase = "complete" -> 2
      [] OTHER -> 0

\* The file holds nothing the memory of the running pipeline does not hold.
NotAhead ==
    disk.file = "saved" =>
        /\ \A k \in Kinds : Completed(disk.data, k) \subseteq Completed(checkpoint_data, k)
        /\ PhaseRank(disk.data.phase) <= PhaseRank(checkpoint_data.phase)

\* C29 (as stated): in every reachable state of a running pipeline each
\* completed set stored in the checkpoint file is a subset of the in-memory
\* completed set, and the phase on disk is never later than the phase in memory.
C29_DiskNotAhead_Original == InRun => NotAhead

\* C29 (amended): the same for a pipeline that runs with checkpoints enabled.
C29_DiskNotAhead == (InRun /\ enable_checkpoints) => NotAhead

C29_Witness ==
    /\ InRun
    /\ enable_checkpoints
    /\ parallel_workers = 2
    /\ disk.file = "saved"
    /\ Completed(disk.data, "entity") # {}
    /\ Completed(disk.data, "entity") # Completed(checkpoint_data, "entity")
    /\ Cardinality(Saving) = 1
    /\ hist.disk0 = NoFile

Next ==
    \/ StartRun
    \/ StartRunRaises
    \/ StartupOk
    \/ StartupFails
    \/ SubmitEntities
    \/ PhaseRaises
    \/ SkipEntities
    \/ SubmitRelationships
    \/ SkipRelationships
    \/ \E k \in Kinds : \E i \in BatchIds(k) : StartBatch(k, i)
    \/ \E k \in Kinds : \E i \in BatchIds(k) : Attempt(k, i)
    \/ \E k \in Kinds : \E i \in BatchIds(k) : SaveSnapshot(k, i)
    \/ \E k \in Kinds : \E i \in BatchIds(k) : SaveWrite(k, i)
    \/ \E k \in Kinds : \E i \in BatchIds(k) : Wake(k, i)
    \/ \E k \in Kinds : \E i \in BatchIds(k) : CountRetry(k, i)
    \/ Collect
    \/ EntitiesDone
    \/ RelationshipsDone
    \/ Finish
    \/ Crash

Spec == Init /\ [][Next]_vars

\* A step of a running process: the main thread or a pool thread.
RunStep ==
    \/ StartupOk
    \/ StartupFails
    \/ SubmitEntities
    \/ PhaseRaises
    \/ SkipEntities
    \/ SubmitRelationships
    \/ SkipRelationships
    \/ \E k \in Kinds : \E i \in BatchIds(k) : StartBatch(k, i)
    \/ \E k \in Kinds : \E i \in BatchIds(k) : Attempt(k, i)
    \/ \E k \in Kinds : \E i \in BatchIds(k) : SaveSnapshot(k, i)
    \/ \E k \in Kinds : \E i \in BatchIds(k) : SaveWrite(k, i)
    \/ \E k \in Kinds : \E i \in BatchIds(k) : Wake(k, i)
    \/ \E k \in Kinds : \E i \in BatchIds(k) : CountRetry(k, i)
    \/ Collect
    \/ EntitiesDone
    \/ RelationshipsDone
    \/ Finish

\* Runs that are not killed: a process that can take a step eventually takes one.
NextLive == StartRun \/ StartRunRaises \/ RunStep

LiveSpec == Init /\ [][NextLive]_vars /\ WF_vars(RunStep)

\* A run without checkpoints and without a checkpoint file, for attempt limits
\* up to MaxAttempts.
InitRetry ==
    /\ retry_attempts \in 1 .. MaxAttempts
    /\ parallel_workers \in 1 .. MaxWorkers
    /\ enable_checkpoints = FALSE
    /\ disk = NoFile
    /\ store = EmptyStore
    /\ NotStarted
    /\ data_loader = NoData
    /\ database = NoRows
    /\ pipelines = <<>>
    /\ files = {}
    /\ GlobalRegistry = TemplateRegistry

NextRetry ==
    \/ StartRun
    \/ StartupOk
    \/ SubmitEntities
    \/ SubmitRelationships
    \/ \E k \in Kinds : \E i \in BatchIds(k) : StartBatch(k, i)
    \/ \E k \in Kinds : \E i \in BatchIds(k) : Attempt(k, i)
    \/ \E k \in Kinds : \E i \in BatchIds(k) : SaveSnapshot(k, i)
    \/ \E k \in Kinds : \E i \in BatchIds(k) : Wake(k, i)
    \/ \E k \in Kinds : \E i \in BatchIds(k) : CountRetry(k, i)
    \/ Collect
    \/ EntitiesDone
    \/ RelationshipsDone
    \/ Finish

RetrySpec == InitRetry /\ [][NextRetry]_vars

\* The data loader alone, over every small dataset and batch size.
LoaderSpec == InitLoader /\ [][NextLoader]_vars

\* One node batch applied repeatedly to the Assets table in smart mode.
UpsertSpec == InitUpsert /\ [][NextUpsert]_vars

\* Pipelines of several configurations run from one working directory.
ScopeSpec == InitScope /\ [][NextScope]_vars

\* The template registry: registrations and validations of subgraphs.
RegistrySpec == InitRegistry /\ [][NextRegistry]_vars
====
